---- MODULE Spec2Model ----
(***************************************************************************)
(* Model of the grid-search sweep of src/topic_analysis2.py (the __main__  *)
(* block, lines 555-802) and of exponential_backoff of src/SLIF/utils.py.  *)
(*                                                                         *)
(* The coordinator is one sequential flow; `pc` is its position in the     *)
(* loop body.  The remote workers resolve the submitted tasks concurrently *)
(* (action TaskResolve).  Collaborators that are not part of the sources   *)
(* (client.submit, process_visualizations, the worker metrics, the content *)
(* of a scattered test batch) are nondeterministic choices.                *)
(***************************************************************************)
EXTENDS Integers, Sequences, FiniteSets, TLC

(***************************************************************************)
(* Bounds of the model.                                                    *)
(***************************************************************************)
MaxSample == 2      \* longest sampled list (random_combinations)
MaxTrain == 2       \* largest train pool
MaxVal == 2         \* largest validation pool
MaxTest == 1        \* largest test pool
NumWorkers == 2     \* workers reported by scheduler_info()
MAX_RETRIES == 2    \* --max_retries (line 206), kept small
MaxFaults == 1      \* recoverable faults of the collaborators in one run
MaxBatches == 3     \* most batches the reader yields
MaxTopics == 5      \* longest topic axis the sampler is given
MaxPhases == 2      \* longest phase axis the sampler is given
MaxGridTwoRuns == 6 \* largest grid the samplers of two runs are compared on

(***************************************************************************)
(* Program constants.  Memory is counted in GiB (the source compares bytes *)
(* against mem_threshold * 1024^3, line 184).                              *)
(***************************************************************************)
BASE_WAIT_TIME == 30
CPU_UTILIZATION_THRESHOLD == 100
MEMORY_UTILIZATION_THRESHOLD == 4
\* sample_fraction = 0.375 (line 525), in thousandths.
sample_fraction == 375

(***************************************************************************)
(* The hyperparameter grid (lines 504-522), cut to two topic counts two    *)
(* phase tags and one symbolic value per prior.                            *)
(***************************************************************************)
TopicRange == {5, 10}
alpha_values == {"symmetric"}
beta_values == {"symmetric"}
phases == {"train", "validation"}

combinations == TopicRange \X alpha_values \X beta_values \X phases
GridAxes == [topics |-> TopicRange, alpha_values |-> alpha_values,
             beta_values |-> beta_values, phases |-> phases]
Keys == TopicRange \X alpha_values \X beta_values

\* Content of a scattered test batch without the fields read at lines 695-697.
BadMeta == <<0, "bad", "bad">>
\* Value of the loop variables before the first iteration binds them.
Unbound == <<0, "unbound", "unbound">>
NoModel == 0
\* The sampler of a run of the script that is not looked at.
NoSecondRun == [pc |-> "none", grid |-> {}, sample_size |-> 0,
                random_combinations |-> <<>>, undrawn_combinations |-> {}]

\* The warnings and errors a step can write (logging.warning, logging.error,
\* and the prints of the handlers of lines 748-753).
ThrottlingWarning == <<"throttling", "throttling_params">>           \* lines 582-584
MaxRetriesWarning == <<"max_retries_reached">>                       \* line 591
TrainError == <<"error_train", "error_train_params">>                \* lines 608-609
ValidationError == <<"error_validation", "error_validation_params">> \* lines 679-680
TestError == <<"error_test", "error_test_params">>                   \* lines 715-716
ModelNotFound == <<"model_not_found">>                               \* lines 666, 704
VisKeyError == <<"vis_key_error">>                                   \* line 749
VisUnexpectedError == <<"vis_unexpected_error">>                     \* line 752
ClientNotConnected == <<"error_client_not_connected", "error_shutting_down">>  \* lines 401-402
NoWorkersRunning == <<"error_no_workers", "error_shutting_down">>    \* lines 412-413

Workers == 1..NumWorkers
\* The metrics one worker can report: below or at each threshold.
WorkerMetrics ==
  [cpu : {CPU_UTILIZATION_THRESHOLD - 1, CPU_UTILIZATION_THRESHOLD},
   memory : {MEMORY_UTILIZATION_THRESHOLD - 1, MEMORY_UTILIZATION_THRESHOLD}]
SchedulerInfos == [Workers -> WorkerMetrics]

VARIABLES
  pc,                                   \* position of the coordinator
  random_combinations,                  \* the sampled list (line 538)
  scattered_train_data_futures,         \* train pool (line 423)
  scattered_validation_data_futures,    \* validation pool (line 424)
  scattered_test_data_futures,          \* test pool (line 425): metadata per handle
  i,                                    \* 1-based index of the current iteration
  cur,                                  \* <<n_topics, alpha_value, beta_value>>
  throttle_attempt,                     \* line 572
  sleeps,                               \* durations slept in this throttle decision
  polls,                                \* per poll: was every worker strictly below both thresholds
  admission,                            \* branch taken at line 590
  tasks,                                \* every task submitted so far, by id
  train_futures,                        \* line 551
  validation_futures,                   \* line 552
  test_futures,                         \* line 553
  completed_train_futures,              \* line 614, up to the order of the list
  completed_validation_futures,         \* line 685, up to the order of the list
  completed_test_futures,               \* line 720, up to the order of the list
  train_models_dict,                    \* line 566
  unindexed,                            \* results the loop of line 617 has yet to visit
  validation_batches,                   \* line 644
  idx,                                  \* position in the pool the current for loop walks
  logged,                               \* warnings and errors written by the last step
  progress_bar,                         \* units of the progress indicator
  rebalances,                           \* calls of client.rebalance()
  client_status,                        \* "running" until client.close()
  fresh,                                \* a throttle decision was taken and no wave submitted since
  faults,                               \* recoverable faults raised so far
  reader,                               \* batches futures_create_lda_datasets has yet to yield
  scatter_failed,                       \* ids of the batches whose client.scatter raised
  axes,                                 \* the four lists the product of line 522 is built from
  grid,                                 \* the list `combinations` of line 522, as a set
  sample_size,                          \* line 527
  undrawn_combinations,                 \* lines 533 and 541
  cluster_status,                       \* "running" until cluster.close()
  progress_bar_closed,                  \* progress_bar.close() was called
  workers_info,                         \* the workers the scheduler reports at startup
  second_run,                           \* lines 522-541 in another run of the script on the same axes
  visualized,                           \* the calls of process_visualizations of the last pass
  max_retries                           \* the value of MAX_RETRIES (--max_retries, line 206)

vars == <<pc, random_combinations, scattered_train_data_futures,
          scattered_validation_data_futures, scattered_test_data_futures,
          i, cur, throttle_attempt, sleeps, polls,
          admission, tasks, train_futures, validation_futures, test_futures,
          completed_train_futures, completed_validation_futures,
          completed_test_futures, train_models_dict, unindexed,
          validation_batches, idx, logged, progress_bar, rebalances, client_status, fresh, faults,
          reader, scatter_failed, axes, grid, sample_size, undrawn_combinations,
          cluster_status, progress_bar_closed, workers_info, second_run, visualized,
          max_retries>>

pools == <<scattered_train_data_futures, scattered_validation_data_futures,
           scattered_test_data_futures>>
\* What the partitioner and the sampler leave behind (lines 423-541).
partitioner_vars == <<reader, scatter_failed>>
sampler_vars == <<axes, grid, sample_size, undrawn_combinations>>
environment == <<workers_info, second_run, max_retries>>
config == <<random_combinations, pools, partitioner_vars, sampler_vars, environment>>
throttle_vars == <<throttle_attempt, sleeps, polls, admission>>
pending_vars == <<train_futures, validation_futures, test_futures>>
completed_vars == <<completed_train_futures, completed_validation_futures,
                    completed_test_futures>>
end_vars == <<progress_bar, rebalances, client_status, cluster_status, progress_bar_closed>>
sweep_vars == <<i, cur, throttle_vars, tasks, pending_vars, completed_vars,
                train_models_dict, unindexed, validation_batches, idx, end_vars, visualized, fresh, faults>>

\* A collaborator may still raise an error the run recovers from.
MayFail == faults < MaxFaults

(***************************************************************************)
(* Helpers.                                                                *)
(***************************************************************************)
Range(s) == {s[j] : j \in DOMAIN s}

Min(a, b) == IF a < b THEN a ELSE b

RECURSIVE Pow2(_)
Pow2(n) == IF n = 0 THEN 1 ELSE 2 * Pow2(n - 1)

\* Sequences of length lo..hi over S without a repeated element.
Samples(S, lo, hi) ==
  UNION {{s \in [1..n -> S] : \A a, b \in 1..n : a # b => s[a] # s[b]} : n \in lo..hi}

KeyOf(c) == <<c[1], c[2], c[3]>>

DataHandle(type, id, meta) == [type |-> type, id |-> id, meta |-> meta]

\* A pool of n handles whose batches carry no hyperparameter fields.
PlainPool(type, n) == [j \in 1..n |-> DataHandle(type, j, BadMeta)]

\* The test pools: each handle's content either has the fields n_topics,
\* alpha_value, beta_value (lines 695-697) or lacks them.
TestPools ==
  UNION {{[j \in 1..n |-> DataHandle("test", j, m[j])] : m \in [1..n -> Keys \cup {BadMeta}]}
         : n \in 0..MaxTest}

\* Variant: the factor 2 * attempt in place of 2 ** attempt.
exponential_backoff_mul(attempt, base) == base * (2 * attempt)

(***************************************************************************)
(* src/SLIF/utils.py:30-31                                                 *)
(***************************************************************************)
exponential_backoff(attempt, base) == base * Pow2(attempt)

\* Variant: <= in place of < in the CPU test.
all_workers_below_cpu_threshold_le(info) ==
  \A w \in DOMAIN info : info[w].cpu <= CPU_UTILIZATION_THRESHOLD

(***************************************************************************)
(* Lines 578-579: the two all(...) tests over the workers' metrics.        *)
(***************************************************************************)
all_workers_below_cpu_threshold(info) ==
  \A w \in DOMAIN info : info[w].cpu < CPU_UTILIZATION_THRESHOLD

all_workers_below_memory_threshold(info) ==
  \A w \in DOMAIN info : info[w].memory < MEMORY_UTILIZATION_THRESHOLD

(***************************************************************************)
(* client.submit (lines 601, 671, 708): a new pending task.                *)
(***************************************************************************)
NewTask(phase, key, data, ldamodel) ==
  [phase |-> phase, key |-> key, data |-> data, iter |-> i,
   ldamodel |-> ldamodel, status |-> "pending"]

\* done.result() of a finished task: the dictionary train_model_v2 returns.
TaskResult(t) ==
  [topics |-> tasks[t].key[1], alpha_str |-> tasks[t].key[2],
   beta_str |-> tasks[t].key[3], phase |-> tasks[t].phase, lda_model |-> t]

\* Variant: wait(..., return_when=FIRST_COMPLETED).
AllResolved_first(futures) ==
  futures = <<>> \/ \E t \in Range(futures) : tasks[t].status # "pending"

\* wait(futures, timeout=None) returns: no future of the list is pending.
AllResolved(futures) == \A t \in Range(futures) : tasks[t].status # "pending"

\* Variant: the collection raises only when every task of the list failed.
SomeFailed_all(futures) ==
  futures # <<>> /\ \A t \in Range(futures) : tasks[t].status = "error"

\* Some done.result() raises: the task resolved to a failure.
SomeFailed(futures) == \E t \in Range(futures) : tasks[t].status = "error"

\* The list [done.result() for done in done_X], up to the order of its entries
\* (done_X is a set).
Completed(futures) == {TaskResult(t) : t \in Range(futures)}

\* Variant: an entry that exists is kept (dict.setdefault).
Record_first(dict, result) ==
  LET key == <<result.topics, result.alpha_str, result.beta_str>>
  IN  [k \in DOMAIN dict \cup {key} |-> IF k \in DOMAIN dict THEN dict[k] ELSE result.lda_model]

(***************************************************************************)
(* Lines 623-639: index one train result by (topics, alpha_str, beta_str). *)
(***************************************************************************)
Record(dict, result) ==
  LET key == <<result.topics, result.alpha_str, result.beta_str>>
  IN  [k \in DOMAIN dict \cup {key} |-> IF k = key THEN result.lda_model ELSE dict[k]]

\* Variant: the key is looked up with the phase appended, which no entry has.
Lookup_phasekey(dict, model_key) ==
  IF <<model_key[1], model_key[2], model_key[3], "validation">> \in DOMAIN dict
  THEN [found |-> TRUE, ldamodel |-> NoModel]
  ELSE [found |-> FALSE, ldamodel |-> NoModel]

\* Variant: dict.get(model_key) without the membership test.
Lookup_get(dict, model_key) ==
  [found |-> TRUE,
   ldamodel |-> IF model_key \in DOMAIN dict THEN dict[model_key] ELSE NoModel]

(***************************************************************************)
(* Lines 661-667 and 700-705: the lookup of the trained model.             *)
(***************************************************************************)
Lookup(dict, model_key) ==
  IF model_key \in DOMAIN dict
  THEN [found |-> TRUE, ldamodel |-> dict[model_key]]
  ELSE [found |-> FALSE, ldamodel |-> NoModel]

\* Variant: every validation handle is paired with every sampled combination.
ValidationBatches_product ==
  LET S == Len(random_combinations)
  IN  [j \in 1..(Len(scattered_validation_data_futures) * S) |->
         [data |-> scattered_validation_data_futures[((j - 1) \div S) + 1],
          n_topics |-> random_combinations[((j - 1) % S) + 1][1],
          alpha |-> random_combinations[((j - 1) % S) + 1][2],
          beta |-> random_combinations[((j - 1) % S) + 1][3]]]

\* Variant: every validation handle, with the combination of the iteration.
ValidationBatches_all ==
  [j \in 1..Len(scattered_validation_data_futures) |->
     [data |-> scattered_validation_data_futures[j],
      n_topics |-> random_combinations[i][1],
      alpha |-> random_combinations[i][2],
      beta |-> random_combinations[i][3]]]

(***************************************************************************)
(* Lines 644-647: the validation batches.                                  *)
(***************************************************************************)
ValidationBatches ==
  [j \in 1..Min(Len(scattered_validation_data_futures), Len(random_combinations)) |->
     [data |-> scattered_validation_data_futures[j],
      n_topics |-> random_combinations[j][1],
      alpha |-> random_combinations[j][2],
      beta |-> random_combinations[j][3]]]

\* Position after a for loop over `pool` was entered / has handled entry idx.
EnterLoop(pool, submit, wait) == IF Len(pool) = 0 THEN wait ELSE submit
StepLoop(pool, submit, wait) == IF idx >= Len(pool) THEN wait ELSE submit

Running == pc \notin {"halted", "done"}

\* Line 555: the total of the progress indicator.
TOTAL_COMBINATIONS ==
  Len(random_combinations) * (Len(scattered_train_data_futures)
                                + Len(scattered_validation_data_futures)
                                + Len(scattered_test_data_futures))

\* The variables the loop of line 567 works on, before its first iteration.
LoopStart ==
  /\ i = 0
  /\ cur = Unbound
  /\ throttle_attempt = 0
  /\ sleeps = <<>>
  /\ polls = <<>>
  /\ admission = "none"
  /\ tasks = <<>>
  /\ train_futures = <<>>
  /\ validation_futures = <<>>
  /\ test_futures = <<>>
  /\ completed_train_futures = {}
  /\ completed_validation_futures = {}
  /\ completed_test_futures = {}
  /\ train_models_dict = <<>>
  /\ unindexed = {}
  /\ validation_batches = <<>>
  /\ idx = 1
  /\ logged = <<>>
  /\ progress_bar = 0
  /\ rebalances = 0
  /\ progress_bar_closed = FALSE
  /\ visualized = <<>>
  /\ fresh = FALSE
  /\ faults = 0

(***************************************************************************)
(* The variables of the sweep before its first iteration (lines 546-566).  *)
(***************************************************************************)
SweepStart ==
  /\ client_status = "running"
  /\ cluster_status = "running"
  /\ LoopStart

(***************************************************************************)
(* Initial state: line 566, after the pools and the sample were built.     *)
(***************************************************************************)
Init ==
  /\ pc = "loop_head"
  /\ random_combinations \in Samples(combinations, 1, MaxSample)
  /\ scattered_train_data_futures \in {PlainPool("train", n) : n \in 0..MaxTrain}
  /\ scattered_validation_data_futures \in {PlainPool("validation", n) : n \in 0..MaxVal}
  /\ scattered_test_data_futures \in TestPools
  /\ reader = <<>>
  /\ scatter_failed = {}
  /\ axes = GridAxes
  /\ grid = combinations
  /\ sample_size = Len(random_combinations)
  /\ undrawn_combinations = combinations \ Range(random_combinations)
  /\ workers_info = Workers
  /\ second_run = NoSecondRun
  /\ max_retries = MAX_RETRIES
  /\ SweepStart

\* Variant: the loop body starts at the training phase.
LoopHead_nothrottle ==
  /\ pc = "loop_head"
  /\ IF i < Len(random_combinations)
     THEN /\ i' = i + 1
          /\ cur' = KeyOf(random_combinations[i + 1])
          /\ throttle_attempt' = 0
          /\ sleeps' = <<>>
          /\ polls' = <<>>
          /\ admission' = "none"
          /\ idx' = 1
          /\ pc' = EnterLoop(scattered_train_data_futures, "train_submit", "train_wait")
     ELSE /\ pc' = "shutdown"
          /\ UNCHANGED <<i, cur, throttle_attempt, sleeps, polls, admission, idx>>
  /\ logged' = <<>>
  /\ faults' = faults
  /\ UNCHANGED <<config, tasks, pending_vars, completed_vars,
                 train_models_dict, unindexed, validation_batches, end_vars, visualized, fresh>>

(***************************************************************************)
(* Line 567-572: the for statement binds the next combination, or the loop *)
(* ends when the sampled list is exhausted.                                *)
(***************************************************************************)
LoopHead ==
  /\ pc = "loop_head"
  /\ IF i < Len(random_combinations)
     THEN /\ i' = i + 1
          /\ cur' = KeyOf(random_combinations[i + 1])
          /\ throttle_attempt' = 0
          /\ sleeps' = <<>>
          /\ polls' = <<>>
          /\ admission' = "none"
          /\ pc' = "throttle"
     ELSE /\ pc' = "shutdown"
          /\ UNCHANGED <<i, cur, throttle_attempt, sleeps, polls, admission>>
  /\ logged' = <<>>
  /\ faults' = faults
  /\ UNCHANGED <<config, tasks, pending_vars, completed_vars,
                 train_models_dict, unindexed, validation_batches, idx, end_vars, visualized, fresh>>

\* Variant: the attempt is not counted.
Backoff_nocount ==
  /\ logged' = ThrottlingWarning
  /\ sleeps' = Append(sleeps, exponential_backoff(throttle_attempt, BASE_WAIT_TIME))
  /\ throttle_attempt' = throttle_attempt
  /\ pc' = "throttle"

(***************************************************************************)
(* Lines 582-586: the workers are busy: warn, sleep, count the attempt.    *)
(***************************************************************************)
Backoff ==
  /\ logged' = ThrottlingWarning
  /\ sleeps' = Append(sleeps, exponential_backoff(throttle_attempt, BASE_WAIT_TIME))
  /\ throttle_attempt' = throttle_attempt + 1
  /\ pc' = "throttle"

(***************************************************************************)
(* Lines 576-588: one pass of the while loop.                              *)
(***************************************************************************)
ThrottlePoll ==
  /\ pc = "throttle"
  /\ throttle_attempt < max_retries
  /\ \E scheduler_info \in SchedulerInfos :
       /\ polls' = Append(polls, \A w \in Workers :
                             /\ scheduler_info[w].cpu < CPU_UTILIZATION_THRESHOLD
                             /\ scheduler_info[w].memory < MEMORY_UTILIZATION_THRESHOLD)
       /\ IF ~(all_workers_below_cpu_threshold(scheduler_info)
               /\ all_workers_below_memory_threshold(scheduler_info))
          THEN Backoff
          ELSE /\ logged' = <<>>
               /\ pc' = "admit"
               /\ UNCHANGED <<sleeps, throttle_attempt>>
  /\ faults' = faults
  /\ UNCHANGED <<config, i, cur, admission, tasks, pending_vars, completed_vars,
                 train_models_dict, unindexed, validation_batches, idx, end_vars, visualized, fresh>>

\* Variant: a limit of no retries is not reported as reached.
ThrottleLog_positive ==
  /\ \/ pc = "admit"
     \/ pc = "throttle" /\ ~(throttle_attempt < max_retries)
  /\ IF throttle_attempt = max_retries /\ max_retries > 0
     THEN admission' = "exhausted" /\ logged' = MaxRetriesWarning
     ELSE admission' = "proceed" /\ logged' = <<>>
  /\ fresh' = TRUE
  /\ idx' = 1
  /\ pc' = EnterLoop(scattered_train_data_futures, "train_submit", "train_wait")
  /\ faults' = faults
  /\ UNCHANGED <<config, i, cur, throttle_attempt, sleeps, polls,
                 tasks, pending_vars, completed_vars, train_models_dict,
                 unindexed, validation_batches, end_vars, visualized>>

(***************************************************************************)
(* Lines 590-594 (reached by the break or by the loop condition) and line  *)
(* 599, the entry of the training loop.                                    *)
(***************************************************************************)
ThrottleLog ==
  /\ \/ pc = "admit"
     \/ pc = "throttle" /\ ~(throttle_attempt < max_retries)
  /\ IF throttle_attempt = max_retries
     THEN admission' = "exhausted" /\ logged' = MaxRetriesWarning
     ELSE admission' = "proceed" /\ logged' = <<>>
  /\ fresh' = TRUE
  /\ idx' = 1
  /\ pc' = EnterLoop(scattered_train_data_futures, "train_submit", "train_wait")
  /\ faults' = faults
  /\ UNCHANGED <<config, i, cur, throttle_attempt, sleeps, polls,
                 tasks, pending_vars, completed_vars, train_models_dict,
                 unindexed, validation_batches, end_vars, visualized>>

\* Variant: only a combination tagged "train" is trained.
TrainSubmitted_tagged ==
  /\ tasks' = IF random_combinations[i][4] = "train"
              THEN Append(tasks, NewTask("train", cur, scattered_train_data_futures[idx], NoModel))
              ELSE tasks
  /\ train_futures' = IF random_combinations[i][4] = "train"
                      THEN Append(train_futures, Len(tasks) + 1)
                      ELSE train_futures
  /\ logged' = <<>>
  /\ idx' = idx + 1
  /\ pc' = StepLoop(scattered_train_data_futures, "train_submit", "train_wait")

(***************************************************************************)
(* Lines 601-606: the training task is submitted.                          *)
(***************************************************************************)
TrainSubmitted ==
  /\ tasks' = Append(tasks, NewTask("train", cur, scattered_train_data_futures[idx], NoModel))
  /\ train_futures' = Append(train_futures, Len(tasks) + 1)
  /\ logged' = <<>>
  /\ idx' = idx + 1
  /\ pc' = StepLoop(scattered_train_data_futures, "train_submit", "train_wait")

\* Variant: the handler logs and does not re-raise.
TrainRaised_swallow ==
  /\ logged' = TrainError
  /\ idx' = idx + 1
  /\ pc' = StepLoop(scattered_train_data_futures, "train_submit", "train_wait")
  /\ UNCHANGED <<tasks, train_futures>>

(***************************************************************************)
(* Lines 607-610: client.submit raised; the handler logs and re-raises.    *)
(***************************************************************************)
TrainRaised ==
  /\ logged' = TrainError
  /\ pc' = "halted"
  /\ UNCHANGED <<tasks, train_futures, idx>>

(***************************************************************************)
(* Lines 599-610: one pass of the training loop.                           *)
(***************************************************************************)
TrainSubmit ==
  /\ pc = "train_submit"
  /\ \/ TrainSubmitted
     \/ TrainRaised
  /\ faults' = faults
  /\ UNCHANGED <<config, i, cur, throttle_vars, validation_futures, test_futures,
                 completed_vars, train_models_dict, unindexed, validation_batches, end_vars, visualized, fresh>>

(***************************************************************************)
(* Lines 611-614: join of the train wave and collection of the results.    *)
(***************************************************************************)
TrainWait ==
  /\ pc = "train_wait"
  /\ AllResolved(train_futures)
  /\ logged' = <<>>
  /\ IF SomeFailed(train_futures)
     THEN /\ pc' = "halted"
          /\ UNCHANGED <<completed_train_futures, unindexed, fresh>>
     ELSE /\ completed_train_futures' = Completed(train_futures)
          /\ unindexed' = Completed(train_futures)
          /\ fresh' = FALSE
          /\ pc' = "train_index"
  /\ faults' = faults
  /\ UNCHANGED <<config, i, cur, throttle_vars, tasks, pending_vars,
                 completed_validation_futures, completed_test_futures,
                 train_models_dict, validation_batches, idx, end_vars, visualized>>

(***************************************************************************)
(* Lines 617-639: one pass of the indexing loop.  The list was built from  *)
(* a set, so the loop may visit the results in any order.                  *)
(***************************************************************************)
TrainIndex ==
  /\ pc = "train_index"
  /\ \E train_result \in unindexed :
       /\ cur' = <<train_result.topics, train_result.alpha_str, train_result.beta_str>>
       /\ train_models_dict' = Record(train_models_dict, train_result)
       /\ unindexed' = unindexed \ {train_result}
  /\ logged' = <<>>
  /\ faults' = faults
  /\ UNCHANGED <<pc, config, i, throttle_vars, tasks, pending_vars, completed_vars,
                 validation_batches, idx, end_vars, visualized, fresh>>

\* Variant: the validation loop is entered after the first pass of the
\* indexing loop.
BuildValidationBatches_early ==
  /\ pc = "train_index"
  /\ unindexed # completed_train_futures \/ unindexed = {}
  /\ validation_batches' = ValidationBatches
  /\ idx' = 1
  /\ pc' = EnterLoop(ValidationBatches, "validate_submit", "validate_wait")
  /\ logged' = <<>>
  /\ faults' = faults
  /\ UNCHANGED <<config, i, cur, throttle_vars, tasks, pending_vars, completed_vars,
                 train_models_dict, unindexed, end_vars, visualized, fresh>>

(***************************************************************************)
(* Lines 641-649: after the indexing loop, the validation batches are      *)
(* built and the validation loop is entered.                               *)
(***************************************************************************)
BuildValidationBatches ==
  /\ pc = "train_index"
  /\ unindexed = {}
  /\ validation_batches' = ValidationBatches
  /\ idx' = 1
  /\ pc' = EnterLoop(ValidationBatches, "validate_submit", "validate_wait")
  /\ logged' = <<>>
  /\ faults' = faults
  /\ UNCHANGED <<config, i, cur, throttle_vars, tasks, pending_vars, completed_vars,
                 train_models_dict, unindexed, end_vars, visualized, fresh>>

\* Variant: the handler re-raises, as the training handler does.
ValidateRaised_fatal ==
  /\ MayFail
  /\ faults' = faults + 1
  /\ logged' = ValidationError
  /\ pc' = "halted"
  /\ UNCHANGED <<tasks, validation_futures, idx>>

(***************************************************************************)
(* Lines 678-680: submitting the validation task raised; the handler logs  *)
(* and the for loop goes on.                                               *)
(***************************************************************************)
ValidateRaised ==
  /\ MayFail
  /\ faults' = faults + 1
  /\ logged' = ValidationError
  /\ idx' = idx + 1
  /\ pc' = StepLoop(validation_batches, "validate_submit", "validate_wait")
  /\ UNCHANGED <<tasks, validation_futures>>

(***************************************************************************)
(* Lines 649-680: one pass of the validation loop.                         *)
(***************************************************************************)
ValidateSubmit ==
  /\ pc = "validate_submit"
  /\ LET batch == validation_batches[idx]
         model_key == <<batch.n_topics, batch.alpha, batch.beta>>
         model == Lookup(train_models_dict, model_key)
     IN  /\ cur' = model_key
         /\ IF model.found
            THEN \/ /\ tasks' = Append(tasks, NewTask("validation", model_key, batch.data,
                                                      model.ldamodel))
                    /\ validation_futures' = Append(validation_futures, Len(tasks) + 1)
                    /\ logged' = <<>>
                    /\ idx' = idx + 1
                    /\ pc' = StepLoop(validation_batches, "validate_submit", "validate_wait")
                    /\ faults' = faults
                 \/ ValidateRaised
            ELSE /\ logged' = ModelNotFound
                 /\ idx' = idx + 1
                 /\ pc' = StepLoop(validation_batches, "validate_submit", "validate_wait")
                 /\ UNCHANGED <<tasks, validation_futures, faults>>
  /\ UNCHANGED <<config, i, throttle_vars, train_futures, test_futures, completed_vars,
                 train_models_dict, unindexed, validation_batches, end_vars, visualized, fresh>>

(***************************************************************************)
(* Lines 684-685 and 691: join of the validation wave.                     *)
(***************************************************************************)
ValidateWait ==
  /\ pc = "validate_wait"
  /\ AllResolved(validation_futures)
  /\ logged' = <<>>
  /\ IF SomeFailed(validation_futures)
     THEN /\ pc' = "halted"
          /\ UNCHANGED <<completed_validation_futures, idx, fresh>>
     ELSE /\ completed_validation_futures' = Completed(validation_futures)
          /\ idx' = 1
          /\ fresh' = FALSE
          /\ pc' = EnterLoop(scattered_test_data_futures, "test_submit", "test_wait")
  /\ faults' = faults
  /\ UNCHANGED <<config, i, cur, throttle_vars, tasks, pending_vars,
                 completed_train_futures, completed_test_futures, train_models_dict,
                 unindexed, validation_batches, end_vars, visualized>>

(***************************************************************************)
(* Lines 714-716: reading the test batch or submitting the test task       *)
(* raised; the handler logs and the for loop goes on.                      *)
(***************************************************************************)
TestRaised ==
  /\ logged' = TestError
  /\ idx' = idx + 1
  /\ pc' = StepLoop(scattered_test_data_futures, "test_submit", "test_wait")
  /\ UNCHANGED <<tasks, test_futures>>

\* Variant: the key is the combination of the for statement of line 567.
TestSubmit_loopkey ==
  /\ pc = "test_submit"
  /\ LET scattered_data == scattered_test_data_futures[idx]
         model_key == KeyOf(random_combinations[i])
         model == Lookup(train_models_dict, model_key)
     IN  IF scattered_data.meta = BadMeta
         THEN TestRaised /\ UNCHANGED <<cur, faults>>
         ELSE /\ cur' = model_key
              /\ IF model.found
                 THEN \/ /\ tasks' = Append(tasks, NewTask("test", model_key, scattered_data,
                                                           model.ldamodel))
                         /\ test_futures' = Append(test_futures, Len(tasks) + 1)
                         /\ logged' = <<>>
                         /\ idx' = idx + 1
                         /\ pc' = StepLoop(scattered_test_data_futures, "test_submit", "test_wait")
                         /\ faults' = faults
                      \/ MayFail /\ faults' = faults + 1 /\ TestRaised
                 ELSE /\ logged' = ModelNotFound
                      /\ idx' = idx + 1
                      /\ pc' = StepLoop(scattered_test_data_futures, "test_submit", "test_wait")
                      /\ UNCHANGED <<tasks, test_futures, faults>>
  /\ UNCHANGED <<config, i, throttle_vars, train_futures, validation_futures,
                 completed_vars, train_models_dict, unindexed, validation_batches, end_vars, visualized, fresh>>

(***************************************************************************)
(* Lines 691-716: one pass of the test loop.                               *)
(***************************************************************************)
TestSubmit ==
  /\ pc = "test_submit"
  /\ LET scattered_data == scattered_test_data_futures[idx]
         model_key == scattered_data.meta
         model == Lookup(train_models_dict, model_key)
     IN  IF model_key = BadMeta
         THEN TestRaised /\ UNCHANGED <<cur, faults>>
         ELSE /\ cur' = model_key
              /\ IF model.found
                 THEN \/ /\ tasks' = Append(tasks, NewTask("test", model_key, scattered_data,
                                                           model.ldamodel))
                         /\ test_futures' = Append(test_futures, Len(tasks) + 1)
                         /\ logged' = <<>>
                         /\ idx' = idx + 1
                         /\ pc' = StepLoop(scattered_test_data_futures, "test_submit", "test_wait")
                         /\ faults' = faults
                      \/ MayFail /\ faults' = faults + 1 /\ TestRaised
                 ELSE /\ logged' = ModelNotFound
                      /\ idx' = idx + 1
                      /\ pc' = StepLoop(scattered_test_data_futures, "test_submit", "test_wait")
                      /\ UNCHANGED <<tasks, test_futures, faults>>
  /\ UNCHANGED <<config, i, throttle_vars, train_futures, validation_futures,
                 completed_vars, train_models_dict, unindexed, validation_batches, end_vars, visualized, fresh>>

(***************************************************************************)
(* Lines 719-720: join of the test wave.                                   *)
(***************************************************************************)
TestWait ==
  /\ pc = "test_wait"
  /\ AllResolved(test_futures)
  /\ logged' = <<>>
  /\ IF SomeFailed(test_futures)
     THEN /\ pc' = "halted"
          /\ UNCHANGED <<completed_test_futures, fresh>>
     ELSE /\ completed_test_futures' = Completed(test_futures)
          /\ fresh' = FALSE
          /\ pc' = "visualize"
  /\ faults' = faults
  /\ UNCHANGED <<config, i, cur, throttle_vars, tasks, pending_vars,
                 completed_train_futures, completed_validation_futures,
                 train_models_dict, unindexed, validation_batches, idx, end_vars, visualized>>

\* Line 746: the one call of process_visualizations that is executed; the
\* calls for the validation and the test results (lines 757-760) are inside
\* the string literal of lines 756-785.
VisualizationCalls ==
  <<[phase |-> "TRAIN", completed_futures |-> completed_train_futures]>>

(***************************************************************************)
(* Lines 748-750: KeyError: print and continue with the next iteration.    *)
(***************************************************************************)
VisualizeKeyError ==
  /\ MayFail
  /\ faults' = faults + 1
  /\ logged' = VisKeyError
  /\ pc' = "loop_head"

\* Variant: continue in place of break.
VisualizeUnexpected_continue ==
  /\ faults' = faults
  /\ logged' = VisUnexpectedError
  /\ pc' = "loop_head"

(***************************************************************************)
(* Lines 751-753: any other exception: print and break out of the loop.    *)
(***************************************************************************)
VisualizeUnexpected ==
  /\ faults' = faults
  /\ logged' = VisUnexpectedError
  /\ pc' = "shutdown"

(***************************************************************************)
(* Lines 746-755: the visualization call and its two handlers.             *)
(***************************************************************************)
Visualize ==
  /\ pc = "visualize"
  /\ visualized' = VisualizationCalls
  /\ \/ pc' = "recycle" /\ logged' = <<>> /\ faults' = faults
     \/ VisualizeKeyError
     \/ VisualizeUnexpected
  /\ UNCHANGED <<config, i, cur, throttle_vars, tasks, pending_vars, completed_vars,
                 train_models_dict, unindexed, validation_batches, idx, end_vars, fresh>>

\* Variant: train_futures.clear() is missing.
Recycle_keeptrain ==
  /\ pc = "recycle"
  /\ progress_bar' = progress_bar + 1
  /\ completed_train_futures' = {}
  /\ completed_validation_futures' = {}
  /\ completed_test_futures' = {}
  /\ test_futures' = <<>>
  /\ validation_futures' = <<>>
  /\ train_futures' = train_futures
  /\ rebalances' = rebalances + 1
  /\ logged' = <<>>
  /\ pc' = "loop_head"
  /\ faults' = faults
  /\ UNCHANGED <<config, i, cur, throttle_vars, tasks, train_models_dict,
                 unindexed, validation_batches, idx, client_status, cluster_status,
                 progress_bar_closed, visualized, fresh>>

(***************************************************************************)
(* Lines 786-797: the end of the loop body.                                *)
(***************************************************************************)
Recycle ==
  /\ pc = "recycle"
  /\ progress_bar' = progress_bar + 1
  /\ completed_train_futures' = {}
  /\ completed_validation_futures' = {}
  /\ completed_test_futures' = {}
  /\ test_futures' = <<>>
  /\ validation_futures' = <<>>
  /\ train_futures' = <<>>
  /\ rebalances' = rebalances + 1
  /\ logged' = <<>>
  /\ pc' = "loop_head"
  /\ faults' = faults
  /\ UNCHANGED <<config, i, cur, throttle_vars, tasks, train_models_dict,
                 unindexed, validation_batches, idx, client_status, cluster_status,
                 progress_bar_closed, visualized, fresh>>

\* Variant: the script ends at client.close().
Shutdown_keepcluster ==
  /\ pc = "shutdown"
  /\ progress_bar_closed' = TRUE
  /\ client_status' = "closed"
  /\ cluster_status' = cluster_status
  /\ logged' = <<>>
  /\ pc' = "done"
  /\ faults' = faults
  /\ UNCHANGED <<config, i, cur, throttle_vars, tasks, pending_vars, completed_vars,
                 train_models_dict, unindexed, validation_batches, idx, progress_bar, rebalances,
                 visualized, fresh>>

(***************************************************************************)
(* Lines 800-803: after the loop.                                          *)
(***************************************************************************)
Shutdown ==
  /\ pc = "shutdown"
  /\ progress_bar_closed' = TRUE
  /\ client_status' = "closed"
  /\ cluster_status' = "closed"
  /\ logged' = <<>>
  /\ pc' = "done"
  /\ faults' = faults
  /\ UNCHANGED <<config, i, cur, throttle_vars, tasks, pending_vars, completed_vars,
                 train_models_dict, unindexed, validation_batches, idx, progress_bar, rebalances,
                 visualized, fresh>>

(***************************************************************************)
(* A worker resolves a pending task, to a result or to a failure.          *)
(***************************************************************************)
TaskResolve ==
  /\ Running
  /\ \E t \in DOMAIN tasks :
       /\ tasks[t].status = "pending"
       /\ \E s \in {"finished", "error"} : tasks' = [tasks EXCEPT ![t].status = s]
  /\ UNCHANGED <<pc, config, i, cur, throttle_vars, pending_vars, completed_vars,
                 train_models_dict, unindexed, validation_batches, idx, logged, end_vars, visualized, fresh, faults>>

Next ==
  \/ LoopHead
  \/ ThrottlePoll
  \/ ThrottleLog
  \/ TrainSubmit
  \/ TrainWait
  \/ TrainIndex
  \/ BuildValidationBatches
  \/ ValidateSubmit
  \/ ValidateWait
  \/ TestSubmit
  \/ TestWait
  \/ Visualize
  \/ Recycle
  \/ Shutdown
  \/ TaskResolve

Spec == Init /\ [][Next]_vars

\* The coordinator is one sequential flow and the workers resolve every task
\* they are given: some step is taken as long as one is possible.
FairSpec == Spec /\ WF_vars(Next)

\* State at line 566 for every value --max_retries is given, a negative one
\* and none included.
ThrottleInit ==
  /\ pc = "loop_head"
  /\ random_combinations \in Samples(combinations, 1, MaxSample)
  /\ scattered_train_data_futures \in {PlainPool("train", n) : n \in 0..MaxTrain}
  /\ scattered_validation_data_futures \in {PlainPool("validation", n) : n \in 0..MaxVal}
  /\ scattered_test_data_futures \in TestPools
  /\ reader = <<>>
  /\ scatter_failed = {}
  /\ axes = GridAxes
  /\ grid = combinations
  /\ sample_size = Len(random_combinations)
  /\ undrawn_combinations = combinations \ Range(random_combinations)
  /\ workers_info = Workers
  /\ second_run = NoSecondRun
  /\ max_retries \in -1..MAX_RETRIES
  /\ SweepStart

\* The sweep under every retry limit.
SpecThrottle == ThrottleInit /\ [][Next]_vars

(***************************************************************************)
(* The data partitioner: lines 423-469.                                    *)
(***************************************************************************)
\* Lines 444, 456, 467: the error written when client.scatter raises, with
\* the tag of the batch.
ScatterError(type) == <<"error_scatter", type>>

\* What a batch_info can be: a tag and the content of the batch.  Only the
\* content of a test batch is read later (lines 693-697).
BatchKinds ==
  {[type |-> t, meta |-> BadMeta] : t \in {"train", "validation", "other"}}
    \cup {[type |-> "test", meta |-> m] : m \in Keys \cup {BadMeta}}

\* The sequences futures_create_lda_datasets can yield, each batch numbered
\* by its position.
Readers ==
  UNION {{[j \in 1..n |-> [type |-> k[j].type, id |-> j, meta |-> k[j].meta]]
            : k \in [1..n -> BatchKinds]} : n \in 0..MaxBatches}

\* Variant: the branches are separate if statements and the first one
\* takes every batch that is not a test batch.
ScatterPlaced_overlap(batch_info) ==
  LET scattered_future == DataHandle(batch_info.type, batch_info.id, batch_info.meta)
  IN  /\ scattered_train_data_futures' =
           IF batch_info.type # "test"
           THEN Append(scattered_train_data_futures, scattered_future)
           ELSE scattered_train_data_futures
      /\ scattered_validation_data_futures' =
           IF batch_info.type = "validation"
           THEN Append(scattered_validation_data_futures, scattered_future)
           ELSE scattered_validation_data_futures
      /\ scattered_test_data_futures' =
           IF batch_info.type = "test"
           THEN Append(scattered_test_data_futures, scattered_future)
           ELSE scattered_test_data_futures
      /\ logged' = <<>>
      /\ pc' = "scatter"
      /\ UNCHANGED scatter_failed

\* Lines 436-441, 450-454, 462-465: the batch is placed and its handle is
\* appended to the pool of its tag.
ScatterPlaced(batch_info) ==
  LET scattered_future == DataHandle(batch_info.type, batch_info.id, batch_info.meta)
  IN  /\ scattered_train_data_futures' =
           IF batch_info.type = "train"
           THEN Append(scattered_train_data_futures, scattered_future)
           ELSE scattered_train_data_futures
      /\ scattered_validation_data_futures' =
           IF batch_info.type = "validation"
           THEN Append(scattered_validation_data_futures, scattered_future)
           ELSE scattered_validation_data_futures
      /\ scattered_test_data_futures' =
           IF batch_info.type = "test"
           THEN Append(scattered_test_data_futures, scattered_future)
           ELSE scattered_test_data_futures
      /\ logged' = <<>>
      /\ pc' = "scatter"
      /\ UNCHANGED scatter_failed

\* Variant: the exception of client.scatter is not caught.
ScatterRaised_uncaught(batch_info) ==
  /\ logged' = ScatterError(batch_info.type)
  /\ scatter_failed' = scatter_failed \cup {batch_info.id}
  /\ pc' = "halted"
  /\ UNCHANGED pools

\* Lines 443-444, 455-456, 466-467: client.scatter raised; the handler logs
\* and the for loop goes on.
ScatterRaised(batch_info) ==
  /\ logged' = ScatterError(batch_info.type)
  /\ scatter_failed' = scatter_failed \cup {batch_info.id}
  /\ pc' = "scatter"
  /\ UNCHANGED pools

\* Lines 429-469: one pass of the scatter loop.
Scatter ==
  /\ pc = "scatter"
  /\ reader # <<>>
  /\ LET batch_info == Head(reader)
     IN  /\ reader' = Tail(reader)
         /\ IF batch_info.type \in {"train", "validation", "test"}
            THEN \/ ScatterPlaced(batch_info)
                 \/ ScatterRaised(batch_info)
            ELSE /\ logged' = <<>>
                 /\ pc' = "scatter"
                 /\ UNCHANGED <<pools, scatter_failed>>
  /\ UNCHANGED <<random_combinations, sampler_vars, environment, sweep_vars>>

\* Lines 429 and 472-481: the reader is exhausted; the run goes on to the
\* hyperparameter grid.
ScatterDone ==
  /\ pc = "scatter"
  /\ reader = <<>>
  /\ logged' = <<>>
  /\ pc' = "build_combinations"
  /\ UNCHANGED <<config, sweep_vars>>

(***************************************************************************)
(* The combination sampler: lines 483-541.                                 *)
(***************************************************************************)
Max(a, b) == IF a > b THEN a ELSE b

\* range(START_TOPICS, END_TOPICS + 1, STEP_SIZE)
TopicAxis(start, end, step) == {start + k * step : k \in 0..((end - start) \div step)}

\* The phases of line 521, in the order of the list.
PhaseList == <<"train", "validation", "test">>

\* The axes the sampler is run on.
AxesConfigs ==
  {[topics |-> TopicAxis(5, 5 * n, 5), alpha_values |-> alpha_values,
    beta_values |-> beta_values, phases |-> {PhaseList[j] : j \in 1..p}]
     : n \in 1..MaxTopics, p \in 1..MaxPhases}

\* itertools.product over the four axes (line 522).
Product(a) == a.topics \X a.alpha_values \X a.beta_values \X a.phases

\* Variant: the nearest integer in place of int(...).
SampleSize_round(n) == Min(Max(1, (n * sample_fraction + 500) \div 1000), n)

\* Line 527: min(max(1, int(len(combinations) * sample_fraction)), len(combinations)).
\* int truncates; the product is not negative.
SampleSize(n) == Min(Max(1, (n * sample_fraction) \div 1000), n)

\* random.sample(population, k): k entries of the population, none twice.
RandomSample(population, k) ==
  {s \in [1..k -> population] : \A a, b \in 1..k : a # b => s[a] # s[b]}

\* Lines 483-527: the grid and the size of the sample.
BuildCombinations ==
  /\ pc = "build_combinations"
  /\ grid' = Product(axes)
  /\ sample_size' = SampleSize(Cardinality(Product(axes)))
  /\ logged' = <<>>
  /\ pc' = "draw"
  /\ UNCHANGED <<random_combinations, pools, partitioner_vars, axes,
                 undrawn_combinations, environment, sweep_vars>>

\* Lines 530-535: the first draw and its complement.
Draw ==
  /\ pc = "draw"
  /\ random_combinations' \in RandomSample(grid, sample_size)
  /\ undrawn_combinations' = grid \ Range(random_combinations')
  /\ logged' = <<>>
  /\ pc' = "redraw"
  /\ UNCHANGED <<pools, partitioner_vars, axes, grid, sample_size, environment, sweep_vars>>

\* Variant: line 541 is missing, the complement is the first draw's.
Redraw_stale ==
  /\ pc = "redraw"
  /\ random_combinations' \in RandomSample(grid, sample_size)
  /\ undrawn_combinations' = undrawn_combinations
  /\ logged' = <<>>
  /\ pc' = "enter_sweep"
  /\ UNCHANGED <<pools, partitioner_vars, axes, grid, sample_size, environment, sweep_vars>>

\* Lines 538-543: the second draw replaces the first, and its complement.
Redraw ==
  /\ pc = "redraw"
  /\ random_combinations' \in RandomSample(grid, sample_size)
  /\ undrawn_combinations' = grid \ Range(random_combinations')
  /\ logged' = <<>>
  /\ pc' = "enter_sweep"
  /\ UNCHANGED <<pools, partitioner_vars, axes, grid, sample_size, environment, sweep_vars>>

\* Lines 546-566: the task lists, the progress indicator and the dictionary
\* are created; the for statement of line 567 is next.
EnterSweep ==
  /\ pc = "enter_sweep"
  /\ train_futures' = <<>>
  /\ validation_futures' = <<>>
  /\ test_futures' = <<>>
  /\ progress_bar' = 0
  /\ train_models_dict' = <<>>
  /\ logged' = <<>>
  /\ pc' = "loop_head"
  /\ UNCHANGED <<config, i, cur, throttle_vars, tasks, completed_vars, unindexed,
                 validation_batches, idx, rebalances, client_status, cluster_status,
                 progress_bar_closed, visualized, fresh, faults>>

(***************************************************************************)
(* Lines 397-405: the client must be connected to a running scheduler.     *)
(***************************************************************************)
CheckClient ==
  /\ pc = "check_client"
  /\ IF client_status = "running"
     THEN /\ logged' = <<>>
          /\ pc' = "check_workers"
          /\ UNCHANGED <<client_status, cluster_status>>
     ELSE /\ logged' = ClientNotConnected
          /\ client_status' = "closed"
          /\ cluster_status' = "closed"
          /\ pc' = "exited"
  /\ UNCHANGED <<config, i, cur, throttle_vars, tasks, pending_vars, completed_vars,
                 train_models_dict, unindexed, validation_batches, idx, progress_bar,
                 rebalances, progress_bar_closed, visualized, fresh, faults>>

\* Variant: the number of workers is compared with >= 0.
CheckWorkers_any ==
  /\ pc = "check_workers"
  /\ logged' = <<>>
  /\ pc' = "scatter"
  /\ UNCHANGED <<client_status, cluster_status>>
  /\ UNCHANGED <<config, i, cur, throttle_vars, tasks, pending_vars, completed_vars,
                 train_models_dict, unindexed, validation_batches, idx, progress_bar,
                 rebalances, progress_bar_closed, visualized, fresh, faults>>

(***************************************************************************)
(* Lines 409-416: at least one worker must be running.                     *)
(***************************************************************************)
CheckWorkers ==
  /\ pc = "check_workers"
  /\ IF Cardinality(workers_info) > 0
     THEN /\ logged' = <<>>
          /\ pc' = "scatter"
          /\ UNCHANGED <<client_status, cluster_status>>
     ELSE /\ logged' = NoWorkersRunning
          /\ client_status' = "closed"
          /\ cluster_status' = "closed"
          /\ pc' = "exited"
  /\ UNCHANGED <<config, i, cur, throttle_vars, tasks, pending_vars, completed_vars,
                 train_models_dict, unindexed, validation_batches, idx, progress_bar,
                 rebalances, progress_bar_closed, visualized, fresh, faults>>

\* What Client.status can be when line 397 reads it.
ClientStatuses == {"running", "connecting", "closed"}

\* State at line 397: the client was created, nothing placed, nothing sampled.
StartupInit ==
  /\ pc = "check_client"
  /\ client_status \in ClientStatuses
  /\ cluster_status = "running"
  /\ workers_info \in {1..n : n \in 0..NumWorkers}
  /\ second_run = NoSecondRun
  /\ max_retries = MAX_RETRIES
  /\ reader \in Readers
  /\ scatter_failed = {}
  /\ scattered_train_data_futures = <<>>
  /\ scattered_validation_data_futures = <<>>
  /\ scattered_test_data_futures = <<>>
  /\ axes = GridAxes
  /\ grid = {}
  /\ sample_size = 0
  /\ random_combinations = <<>>
  /\ undrawn_combinations = {}
  /\ LoopStart

\* State at line 423: nothing placed, nothing sampled.
ScatterInit ==
  /\ pc = "scatter"
  /\ reader \in Readers
  /\ scatter_failed = {}
  /\ scattered_train_data_futures = <<>>
  /\ scattered_validation_data_futures = <<>>
  /\ scattered_test_data_futures = <<>>
  /\ axes = GridAxes
  /\ grid = {}
  /\ sample_size = 0
  /\ random_combinations = <<>>
  /\ undrawn_combinations = {}
  /\ workers_info = Workers
  /\ second_run = NoSecondRun
  /\ max_retries = MAX_RETRIES
  /\ SweepStart

\* State at line 483, for the axes the sampler is run on.
SamplerInit ==
  /\ pc = "build_combinations"
  /\ reader = <<>>
  /\ scatter_failed = {}
  /\ scattered_train_data_futures = <<>>
  /\ scattered_validation_data_futures = <<>>
  /\ scattered_test_data_futures = <<>>
  /\ axes \in AxesConfigs
  /\ grid = {}
  /\ sample_size = 0
  /\ random_combinations = <<>>
  /\ undrawn_combinations = {}
  /\ workers_info = Workers
  /\ second_run = NoSecondRun
  /\ max_retries = MAX_RETRIES
  /\ SweepStart

(***************************************************************************)
(* Another run of the script with the same command line: the same axes,    *)
(* the same sample_fraction and the same RANDOM_STATE (line 194, which is  *)
(* handed to train_model_v2 at lines 603, 673 and 710 and to nothing       *)
(* else).  Its lines 483-541 work on the fields of second_run.             *)
(***************************************************************************)
first_run_vars == <<pc, logged, random_combinations, pools, partitioner_vars, sampler_vars,
                    workers_info, max_retries, sweep_vars>>

\* Lines 483-527 of the other run.
SecondBuildCombinations ==
  /\ second_run.pc = "build_combinations"
  /\ second_run' = [second_run EXCEPT !.grid = Product(axes),
                                      !.sample_size = SampleSize(Cardinality(Product(axes))),
                                      !.pc = "draw"]
  /\ UNCHANGED first_run_vars

\* Lines 530-535 of the other run.
SecondDraw ==
  /\ second_run.pc = "draw"
  /\ \E drawn \in RandomSample(second_run.grid, second_run.sample_size) :
       second_run' = [second_run EXCEPT !.random_combinations = drawn,
                                        !.undrawn_combinations = second_run.grid \ Range(drawn),
                                        !.pc = "redraw"]
  /\ UNCHANGED first_run_vars

\* Lines 538-543 of the other run.
SecondRedraw ==
  /\ second_run.pc = "redraw"
  /\ \E drawn \in RandomSample(second_run.grid, second_run.sample_size) :
       second_run' = [second_run EXCEPT !.random_combinations = drawn,
                                        !.undrawn_combinations = second_run.grid \ Range(drawn),
                                        !.pc = "enter_sweep"]
  /\ UNCHANGED first_run_vars

\* State at line 483 of two runs on the same axes.
TwoRunsInit ==
  /\ pc = "build_combinations"
  /\ reader = <<>>
  /\ scatter_failed = {}
  /\ scattered_train_data_futures = <<>>
  /\ scattered_validation_data_futures = <<>>
  /\ scattered_test_data_futures = <<>>
  /\ axes \in {a \in AxesConfigs : Cardinality(Product(a)) <= MaxGridTwoRuns}
  /\ grid = {}
  /\ sample_size = 0
  /\ random_combinations = <<>>
  /\ undrawn_combinations = {}
  /\ workers_info = Workers
  /\ second_run = [NoSecondRun EXCEPT !.pc = "build_combinations"]
  /\ max_retries = MAX_RETRIES
  /\ SweepStart

SamplerNext ==
  \/ BuildCombinations
  \/ Draw
  \/ Redraw
  \/ EnterSweep

\* The sampler alone, on every configuration of the axes.
SpecSampler == SamplerInit /\ [][SamplerNext]_vars

TwoRunsNext ==
  \/ SamplerNext
  \/ SecondBuildCombinations
  \/ SecondDraw
  \/ SecondRedraw

\* The samplers of two runs on the same axes, side by side.
SpecTwoRuns == TwoRunsInit /\ [][TwoRunsNext]_vars

ProgramNext ==
  \/ Scatter
  \/ ScatterDone
  \/ SamplerNext
  \/ Next

\* The run from the scatter loop to the end of the sweep.
SpecProgram == ScatterInit /\ [][ProgramNext]_vars

StartupNext ==
  \/ CheckClient
  \/ CheckWorkers
  \/ ProgramNext

\* The run from the startup checks to the end of the sweep.
SpecStartup == StartupInit /\ [][StartupNext]_vars

TypeOK ==
  /\ pc \in {"check_client", "check_workers", "exited", "scatter", "build_combinations", "draw", "redraw", "enter_sweep",
             "loop_head", "throttle", "admit", "train_submit", "train_wait", "train_index",
             "validate_submit", "validate_wait", "test_submit", "test_wait",
             "visualize", "recycle", "shutdown", "done", "halted"}
  /\ i \in 0..Len(random_combinations)
  /\ throttle_attempt \in 0..MAX_RETRIES
  /\ DOMAIN train_models_dict \subseteq Keys

(***************************************************************************)
(* Properties.                                                             *)
(***************************************************************************)
WaveResolved(phase, k) ==
  \A u \in DOMAIN tasks :
    (tasks[u].phase = phase /\ tasks[u].iter = k) => tasks[u].status # "pending"

WaveOf(phase, k) == {u \in DOMAIN tasks : tasks[u].phase = phase /\ tasks[u].iter = k}

\* C1: no validation task exists while a training task of the same iteration
\* is unresolved, no test task exists while a validation task of the same
\* iteration is unresolved, and the coordinator is past a join only when
\* every task of that wave has resolved.
C1_WaveBarrier ==
  /\ \A t \in DOMAIN tasks :
       /\ tasks[t].phase = "validation" => WaveResolved("train", tasks[t].iter)
       /\ tasks[t].phase = "test" => WaveResolved("validation", tasks[t].iter)
  /\ pc \in {"train_index", "validate_submit", "validate_wait", "test_submit", "test_wait",
             "visualize", "recycle"} => WaveResolved("train", i)
  /\ pc \in {"test_submit", "test_wait", "visualize", "recycle"}
       => WaveResolved("validation", i)
  /\ pc \in {"visualize", "recycle"} => WaveResolved("test", i)

\* An iteration whose three waves were submitted, the train wave of two tasks.
C1_Witness ==
  /\ Cardinality(WaveOf("train", i)) >= 2
  /\ WaveOf("validation", i) # {}
  /\ WaveOf("test", i) # {}

\* C2: a validation or test task is submitted only for a key that is in
\* train_models_dict at that moment; a batch whose key is absent writes
\* exactly one "model not found" error, submits nothing, and the loop goes on
\* with the next batch.
C2_SubmitOnlyIfIndexed ==
  [][LET skipped(pool, submit, wait) ==
           /\ logged' = ModelNotFound
           /\ tasks' = tasks
           /\ UNCHANGED pending_vars
           /\ idx' = idx + 1
           /\ pc' = IF idx < Len(pool) THEN submit ELSE wait
     IN  /\ (Len(tasks') > Len(tasks) /\ tasks'[Len(tasks')].phase \in {"validation", "test"})
              => tasks'[Len(tasks')].key \in DOMAIN train_models_dict
         /\ (pc = "validate_submit" /\ idx' # idx)
              => LET b == validation_batches[idx]
                 IN  <<b.n_topics, b.alpha, b.beta>> \notin DOMAIN train_models_dict
                       => skipped(validation_batches, "validate_submit", "validate_wait")
         /\ (pc = "test_submit" /\ idx' # idx)
              => LET m == scattered_test_data_futures[idx].meta
                 IN  (m # BadMeta /\ m \notin DOMAIN train_models_dict)
                       => skipped(scattered_test_data_futures, "test_submit", "test_wait")
    ]_vars

\* A batch was skipped in an iteration whose train wave was submitted.
C2_Witness ==
  /\ logged = ModelNotFound
  /\ WaveOf("train", i) # {}

\* C3: in the iteration of combination c every validation batch, and every
\* validation task submitted, carries the key of c.
C3_ValidationUsesCurrentKey ==
  /\ pc \in {"validate_submit", "validate_wait"}
       => \A j \in DOMAIN validation_batches :
            <<validation_batches[j].n_topics, validation_batches[j].alpha,
              validation_batches[j].beta>> = KeyOf(random_combinations[i])
  /\ \A t \in DOMAIN tasks :
       tasks[t].phase = "validation"
         => tasks[t].key = KeyOf(random_combinations[tasks[t].iter])

\* C4: a training submission that raises writes the error, halts the run
\* without submitting the task, and nothing is submitted after the halt.
C4_TrainSubmitFatal ==
  [][/\ (pc = "train_submit" /\ logged' = TrainError)
          => (pc' = "halted" /\ tasks' = tasks /\ UNCHANGED pending_vars)
     /\ pc = "halted" => (pc' = "halted" /\ tasks' = tasks /\ i' = i)
    ]_vars

\* The run halted on the training error after a first task was submitted.
C4_Witness ==
  /\ pc = "halted"
  /\ logged = TrainError
  /\ WaveOf("train", i) # {}

\* C5: a step of the coordinator (one that resolves no task) in which a
\* validation or test submission raises writes the error, drops that batch
\* only, and the for loop goes on with the next batch or, after the last
\* batch, with the join of the wave.
C5_LaterPhaseErrorSkips ==
  [][LET coordinator == \A t \in DOMAIN tasks : tasks'[t].status = tasks[t].status
     IN  /\ (pc = "validate_submit" /\ coordinator /\ logged' = ValidationError)
              => /\ tasks' = tasks
                 /\ UNCHANGED pending_vars
                 /\ idx' = idx + 1
                 /\ pc' = IF idx < Len(validation_batches)
                          THEN "validate_submit" ELSE "validate_wait"
         /\ (pc = "test_submit" /\ coordinator /\ logged' = TestError)
              => /\ tasks' = tasks
                 /\ UNCHANGED pending_vars
                 /\ idx' = idx + 1
                 /\ pc' = IF idx < Len(scattered_test_data_futures)
                          THEN "test_submit" ELSE "test_wait"
    ]_vars

\* The first validation batch was dropped and the second is up next.
C5_Witness ==
  /\ logged = ValidationError
  /\ pc = "validate_submit"
  /\ idx = 2

\* C6: a KeyError of the visualization leads to the for statement, which
\* binds the next combination when there is one; any other exception leaves
\* the loop, after which no combination is bound, polled for or submitted.
C6_VisualizeErrors ==
  [][/\ (pc = "visualize" /\ logged' = VisKeyError) => (pc' = "loop_head" /\ i' = i)
     /\ (pc = "loop_head" /\ i < Len(random_combinations))
          => (pc' = "throttle" /\ i' = i + 1)
     /\ (pc = "visualize" /\ logged' = VisUnexpectedError) => pc' = "shutdown"
     /\ pc \in {"shutdown", "done"}
          => /\ pc' \in {"shutdown", "done"}
             /\ i' = i
             /\ tasks' = tasks
             /\ polls' = polls
    ]_vars

\* The sweep ended with sampled combinations left over.
C6_Witness ==
  /\ pc = "done"
  /\ i < Len(random_combinations)

\* C7: a throttle decision all of whose polls found a worker at or above a
\* threshold slept MAX_RETRIES times, the k-th time BASE_WAIT_TIME * 2^k
\* (k from 0), and is 'exhausted'.
C7_BackoffSchedule ==
  (admission # "none" /\ \A k \in DOMAIN polls : ~polls[k])
    => /\ Len(sleeps) = MAX_RETRIES
       /\ \A k \in 1..MAX_RETRIES : sleeps[k] = BASE_WAIT_TIME * Pow2(k - 1)
       /\ admission = "exhausted"

\* An exhausted decision after several sleeps.
C7_Witness ==
  /\ admission = "exhausted"
  /\ Len(polls) = MAX_RETRIES
  /\ Len(sleeps) >= 2

\* C8: a throttle decision is 'proceed' exactly when one of its polls found
\* every worker strictly below both thresholds; that poll is its last one,
\* and it slept once for each poll before it.
C8_ProceedIffBelow ==
  /\ admission # "none" => (admission = "proceed" <=> \E k \in DOMAIN polls : polls[k])
  /\ \A k \in DOMAIN polls : polls[k] => k = Len(polls)
  /\ \A k \in DOMAIN polls : polls[k] => Len(sleeps) = k - 1
  /\ \A k \in DOMAIN polls : ~polls[k] => Len(sleeps) >= k

\* A decision that proceeded after a failed poll.
C8_Witness ==
  /\ admission = "proceed"
  /\ Len(sleeps) >= 1

\* C9: a throttle decision polls at most MAX_RETRIES times, each poll that
\* does not end it counts one attempt, and in both outcomes the decision is
\* followed by the training loop; 'exhausted' writes a warning only.
C9_ThrottleBounded ==
  [][/\ Len(polls') <= MAX_RETRIES
     /\ (polls' # polls /\ pc' = "throttle" /\ i' = i)
          => (throttle_attempt' = throttle_attempt + 1 /\ throttle_attempt' <= MAX_RETRIES)
     /\ (admission = "none" /\ admission' # "none")
          => /\ admission' \in {"proceed", "exhausted"}
             /\ pc' \in {"train_submit", "train_wait"}
             /\ admission' = "exhausted" => logged' = MaxRetriesWarning
     /\ pc' = "train_submit" => admission' \in {"proceed", "exhausted"}
    ]_vars

\* A training task was submitted after an exhausted decision.
C9_Witness ==
  /\ admission = "exhausted"
  /\ WaveOf("train", i) # {}

\* C10, as stated: every submission loop (train, validation, test) starts
\* after a throttle decision taken since the previous wave.
C10_ThrottleBeforeEachWave ==
  pc \in {"train_submit", "validate_submit", "test_submit"} => fresh

\* C10, amended: the throttle decision is taken once per iteration, before
\* the train wave; the validation and test waves follow without one.
C10_ThrottleOncePerIteration ==
  /\ pc \in {"train_submit", "train_wait"} => (fresh /\ admission # "none")
  /\ pc \in {"train_index", "validate_submit", "validate_wait", "test_submit", "test_wait"}
       => ~fresh

\* A validation loop entered with no throttle decision since the train wave.
C10_Witness ==
  /\ pc = "validate_submit"
  /\ ~fresh
  /\ WaveOf("train", i) # {}

\* C11: once the results of a train wave are recorded, train_models_dict has
\* an entry for exactly the keys of the results collected from that wave and
\* for no other key, and each entry holds the artifact of a result of the
\* wave with that key.
C11_IndexHoldsWaveKeysOnly ==
  (pc = "train_index" /\ unindexed = {})
    => /\ DOMAIN train_models_dict =
            {<<r.topics, r.alpha_str, r.beta_str>> : r \in completed_train_futures}
       /\ \A k \in DOMAIN train_models_dict :
            \E r \in completed_train_futures :
              /\ <<r.topics, r.alpha_str, r.beta_str>> = k
              /\ train_models_dict[k] = r.lda_model

\* C12: the model a validation or test task carries was produced by a
\* training task submitted in the iteration that submits the task.
C12_NoCrossIterationReuse ==
  \A t \in DOMAIN tasks :
    tasks[t].phase \in {"validation", "test"}
      => /\ tasks[t].ldamodel \in DOMAIN tasks
         /\ tasks[tasks[t].ldamodel].phase = "train"
         /\ tasks[tasks[t].ldamodel].iter = tasks[t].iter

\* C13: once the sample is drawn, for each configuration of the axes, the
\* sampled combinations and the undrawn ones have no member in common and
\* together are the Cartesian product of the four axes.
C13_SampleAndRemainderPartition ==
  pc \in {"redraw", "enter_sweep", "loop_head"}
    => /\ Range(random_combinations) \cap undrawn_combinations = {}
       /\ Range(random_combinations) \cup undrawn_combinations
            = axes.topics \X axes.alpha_values \X axes.beta_values \X axes.phases

\* The second draw is made, over two phases, and leaves combinations undrawn.
C13_Witness ==
  /\ pc = "enter_sweep"
  /\ Cardinality(axes.phases) = 2
  /\ Len(random_combinations) >= 2
  /\ undrawn_combinations # {}

\* C14, as stated: the sample has fraction * |grid| entries rounded to the
\* nearest integer, kept between 1 and |grid|, none of them twice; 24
\* combinations give 9.
C14_SampleSizeRounded ==
  /\ SampleSize(24) = 9
  /\ pc # "build_combinations"
       => LET n == Cardinality(grid)
          IN  \E k \in 0..n :
                /\ 2 * 1000 * k - 1000 <= 2 * sample_fraction * n
                /\ 2 * sample_fraction * n <= 2 * 1000 * k + 1000
                /\ sample_size = Max(1, Min(k, n))
  /\ pc \in {"redraw", "enter_sweep", "loop_head"}
       => /\ Len(random_combinations) = sample_size
          /\ \A a, b \in DOMAIN random_combinations :
               a # b => random_combinations[a] # random_combinations[b]

\* C14, amended: the sample has fraction * |grid| entries with the fraction
\* dropped (not rounded), kept between 1 and |grid|, none of them twice; 24
\* combinations give 9.
C14_SampleSizeTruncated ==
  /\ SampleSize(24) = 9
  /\ pc # "build_combinations"
       => LET n == Cardinality(grid)
          IN  \E k \in 0..n :
                /\ 1000 * k <= sample_fraction * n
                /\ sample_fraction * n < 1000 * (k + 1)
                /\ sample_size = Max(1, Min(k, n))
  /\ pc \in {"redraw", "enter_sweep", "loop_head"}
       => /\ Len(random_combinations) = sample_size
          /\ \A a, b \in DOMAIN random_combinations :
               a # b => random_combinations[a] # random_combinations[b]

\* A grid of 10 combinations sampled with 3 entries: 3.75 was not rounded
\* to 4.
C14_Witness ==
  /\ pc = "enter_sweep"
  /\ Cardinality(grid) = 10
  /\ Len(random_combinations) = 3

\* C15: the tasks submitted so far, over all phases and iterations, are at
\* most the length of the sampled list times the sum of the sizes of the
\* three pools.
C15_WorkBounded == Len(tasks) <= TOTAL_COMBINATIONS

\* Two iterations over three non-empty pools that submitted every task the
\* bound allows.
C15_Witness ==
  /\ i = 2
  /\ Len(tasks) = TOTAL_COMBINATIONS
  /\ WaveOf("train", 2) # {}
  /\ WaveOf("validation", 2) # {}
  /\ WaveOf("test", 2) # {}

\* The end-to-end scenario: one train handle, one validation handle, no test
\* handle, one sampled combination.
Scenario ==
  /\ Len(scattered_train_data_futures) = 1
  /\ Len(scattered_validation_data_futures) = 1
  /\ Len(scattered_test_data_futures) = 0
  /\ Len(random_combinations) = 1

\* No submission, no task and no visualization has failed.
NoFailure ==
  /\ \A t \in DOMAIN tasks : tasks[t].status # "error"
  /\ faults = 0
  /\ logged \notin {TrainError, VisUnexpectedError}

\* C16: in the scenario, a run in which nothing fails reaches the recycle
\* step, with exactly one train result, exactly one validation submission,
\* no test submission, and without halting.
C16_EndToEnd ==
  (Scenario /\ []NoFailure)
    => <>(/\ pc = "recycle"
          /\ Cardinality(completed_train_futures) = 1
          /\ Cardinality(WaveOf("train", 1)) = 1
          /\ Len(validation_batches) = 1
          /\ Cardinality(WaveOf("validation", 1)) = 1
          /\ Cardinality(completed_validation_futures) = 1
          /\ WaveOf("test", 1) = {}
          /\ Len(tasks) = 2)

\* The scenario at the recycle step, nothing having failed.
C16_Witness ==
  /\ Scenario
  /\ NoFailure
  /\ pc = "recycle"
  /\ Len(tasks) = 2

\* The ids of the batches that have a handle in some pool.
PlacedIds ==
  {h.id : h \in Range(scattered_train_data_futures)
            \cup Range(scattered_validation_data_futures)
            \cup Range(scattered_test_data_futures)}

\* C17: a pass of the scatter loop whose placement fails writes the error
\* with the tag of the batch and records no handle in any pool; the loop goes
\* on with the next batch, which is placed in the pool of its tag unless its
\* own placement fails; no pool ever holds a handle of a batch whose
\* placement failed; after the loop the run goes on to the sweep with the
\* pools as they are, and only a failure of the sweep halts it.
C17_PlacementFailureSkipsBatch ==
  [][/\ (pc = "scatter" /\ reader # <<>>)
          => LET batch_info == Head(reader)
                 handle == DataHandle(batch_info.type, batch_info.id, batch_info.meta)
                 placed(pool) == pool' = Append(pool, handle)
             IN  /\ reader' = Tail(reader)
                 /\ pc' = "scatter"
                 /\ (logged' = ScatterError(batch_info.type))
                      => (UNCHANGED pools /\ batch_info.id \in scatter_failed')
                 /\ (logged' # ScatterError(batch_info.type)
                       /\ batch_info.type \in {"train", "validation", "test"})
                      => /\ batch_info.id \notin scatter_failed'
                         /\ batch_info.type = "train"
                              => (placed(scattered_train_data_futures)
                                    /\ UNCHANGED <<scattered_validation_data_futures,
                                                   scattered_test_data_futures>>)
                         /\ batch_info.type = "validation"
                              => (placed(scattered_validation_data_futures)
                                    /\ UNCHANGED <<scattered_train_data_futures,
                                                   scattered_test_data_futures>>)
                         /\ batch_info.type = "test"
                              => (placed(scattered_test_data_futures)
                                    /\ UNCHANGED <<scattered_train_data_futures,
                                                   scattered_validation_data_futures>>)
     /\ (pc = "scatter" /\ reader = <<>>) => (pc' = "build_combinations" /\ UNCHANGED pools)
     /\ pc # "scatter" => UNCHANGED <<pools, scatter_failed>>
     /\ (PlacedIds \cap scatter_failed = {})'
     /\ pc' = "halted" => (logged' = TrainError \/ \E t \in DOMAIN tasks' : tasks'[t].status = "error")
    ]_vars

\* A placement failed, a later batch was placed, and the sweep ran an
\* iteration to its end on the pools that were left.
C17_Witness ==
  /\ pc = "recycle"
  /\ tasks # <<>>
  /\ \E f \in scatter_failed : \E p \in PlacedIds : p > f

\* The place of a position of the coordinator in the order of an iteration.
PhaseRank(p) ==
  CASE p \in {"throttle", "admit"} -> 1
    [] p = "train_submit" -> 2
    [] p \in {"train_wait", "train_index"} -> 3
    [] p = "validate_submit" -> 4
    [] p = "validate_wait" -> 5
    [] p = "test_submit" -> 6
    [] p = "test_wait" -> 7
    [] p = "visualize" -> 8
    [] p = "recycle" -> 9
    [] OTHER -> 0

\* C18: within an iteration the coordinator moves forward through throttle,
\* train submit, train wait, validate submit, validate wait, test submit,
\* test wait, visualize, recycle; an iteration is left only from recycle or
\* by an error that ends the sweep; the throttle of the next combination is
\* entered only when the current one was recycled.
C18_IterationEndsInRecycle ==
  [][/\ (PhaseRank(pc) > 0 /\ PhaseRank(pc') > 0) => PhaseRank(pc) <= PhaseRank(pc')
     /\ (PhaseRank(pc) > 0 /\ PhaseRank(pc') = 0)
          => (pc = "recycle" \/ pc' \in {"halted", "shutdown"})
     /\ (pc = "loop_head" /\ pc' = "throttle") => progress_bar = i
    ]_vars

\* C19: the recycle step leaves the three lists of pending tasks and the
\* three lists of completed results empty, requests one rebalance, advances
\* the progress indicator by one, and changes neither the three data pools
\* nor the sampled list.
C19_RecycleEffect ==
  [][pc = "recycle"
       => /\ train_futures' = <<>>
          /\ validation_futures' = <<>>
          /\ test_futures' = <<>>
          /\ completed_train_futures' = {}
          /\ completed_validation_futures' = {}
          /\ completed_test_futures' = {}
          /\ rebalances' = rebalances + 1
          /\ progress_bar' = progress_bar + 1
          /\ UNCHANGED <<pools, random_combinations, undrawn_combinations>>
    ]_vars

\* An iteration that submitted tasks in the three phases was recycled.
C19_Witness ==
  /\ pc = "loop_head"
  /\ progress_bar = 1
  /\ rebalances = 1
  /\ WaveOf("train", i) # {}
  /\ WaveOf("validation", i) # {}
  /\ WaveOf("test", i) # {}
  /\ train_futures = <<>>
  /\ completed_train_futures = {}

\* C20: train_models_dict changes only in the indexing loop that follows the
\* join of the train wave; a lookup (a task that carries a model, or a
\* "model not found" error written by a step of the coordinator) happens
\* only in the validation and test submission loops, and while the coordinator is in one of these loops no
\* training task is unresolved and no train result is left to record; the
\* model a task carries is the entry the dictionary has for its key.
C20_IndexWrittenThenRead ==
  [][/\ train_models_dict' # train_models_dict => (pc = "train_index" /\ pc' = "train_index")
     /\ (\/ /\ logged' = ModelNotFound
            /\ \A t \in DOMAIN tasks : tasks'[t].status = tasks[t].status
         \/ /\ Len(tasks') > Len(tasks)
            /\ tasks'[Len(tasks')].ldamodel # NoModel)
          => pc \in {"validate_submit", "test_submit"}
     /\ (Len(tasks') > Len(tasks) /\ pc \in {"validate_submit", "test_submit"})
          => tasks'[Len(tasks')].ldamodel = train_models_dict[tasks'[Len(tasks')].key]
     /\ pc \in {"validate_submit", "test_submit"}
          => /\ unindexed = {}
             /\ \A t \in DOMAIN tasks : tasks[t].phase = "train" => tasks[t].status # "pending"
    ]_vars

\* Both loops have read the dictionary after two train results were recorded.
C20_Witness ==
  /\ Cardinality(completed_train_futures) = 2
  /\ \E t \in DOMAIN tasks : tasks[t].phase = "validation" /\ tasks[t].iter = i
  /\ \E t \in DOMAIN tasks : tasks[t].phase = "test" /\ tasks[t].iter = i

\* C21: recording a train result makes a lookup of its key return the
\* artifact of that result, whatever was stored under the key before, and
\* changes the lookup of no other key; nothing else changes a lookup; a
\* validation or test task submitted for a key carries what the lookup of
\* the key returns; a lookup of a key with no entry returns absent, and the
\* batch is skipped with one error and no exception.
C21_LookupReturnsLastRecord ==
  [][LET coordinator == \A t \in DOMAIN tasks : tasks'[t].status = tasks[t].status
         absent == [found |-> FALSE, ldamodel |-> NoModel]
         skip == /\ logged' = ModelNotFound
                 /\ tasks' = tasks
                 /\ idx' = idx + 1
                 /\ pc' \notin {"halted", "shutdown"}
     IN  /\ (pc = "train_index" /\ unindexed' # unindexed)
              => \E r \in unindexed :
                   LET key == <<r.topics, r.alpha_str, r.beta_str>>
                   IN  /\ unindexed' = unindexed \ {r}
                       /\ Lookup(train_models_dict', key) = [found |-> TRUE, ldamodel |-> r.lda_model]
                       /\ \A k \in Keys \ {key} :
                            Lookup(train_models_dict', k) = Lookup(train_models_dict, k)
         /\ unindexed' = unindexed
              => \A k \in Keys : Lookup(train_models_dict', k) = Lookup(train_models_dict, k)
         /\ (Len(tasks') > Len(tasks) /\ tasks'[Len(tasks')].phase \in {"validation", "test"})
              => Lookup(train_models_dict, tasks'[Len(tasks')].key)
                   = [found |-> TRUE, ldamodel |-> tasks'[Len(tasks')].ldamodel]
         /\ \A k \in Keys \ DOMAIN train_models_dict : Lookup(train_models_dict, k) = absent
         /\ (pc = "validate_submit" /\ coordinator)
              => LET b == validation_batches[idx]
                 IN  <<b.n_topics, b.alpha, b.beta>> \notin DOMAIN train_models_dict => skip
         /\ (pc = "test_submit" /\ coordinator)
              => LET m == scattered_test_data_futures[idx].meta
                 IN  (m \in Keys \ DOMAIN train_models_dict) => skip
    ]_vars

\* Two train results with one key were recorded and a validation task of
\* the iteration carries the one recorded last.
C21_Witness ==
  /\ pc = "validate_wait"
  /\ Cardinality(completed_train_futures) = 2
  /\ Cardinality(DOMAIN train_models_dict) = 1
  /\ \E t \in WaveOf("validation", i) :
       tasks[t].ldamodel = train_models_dict[tasks[t].key]

\* C22: when the startup check finds the client not connected to a running
\* scheduler, or finds no worker running, the run ends at once with the
\* client and the cluster closed; it has placed no batch and submitted no
\* task, and it takes no further step; a run that places a batch or
\* submits a task has workers.
C22_StartupFailureHalts ==
  [][LET failed == \/ (pc = "check_client" /\ client_status # "running")
                   \/ (pc = "check_workers" /\ workers_info = {})
     IN  /\ failed => /\ pc' = "exited"
                      /\ client_status' = "closed"
                      /\ cluster_status' = "closed"
                      /\ logged' \in {ClientNotConnected, NoWorkersRunning}
         /\ pc' = "exited" => /\ failed
                              /\ tasks' = <<>>
                              /\ scattered_train_data_futures' = <<>>
                              /\ scattered_validation_data_futures' = <<>>
                              /\ scattered_test_data_futures' = <<>>
                              /\ reader' = reader
         /\ pc # "exited"
         /\ (tasks' # tasks \/ reader' # reader) => workers_info # {}
    ]_vars

\* Batches were waiting, no worker was running, and the run ended at the
\* second check.
C22_Witness ==
  /\ pc = "exited"
  /\ logged = NoWorkersRunning
  /\ workers_info = {}
  /\ Len(reader) = MaxBatches
  /\ client_status = "closed"
  /\ cluster_status = "closed"

\* C23: a run in which no task, no submission and no visualization fails
\* reaches the end of the script: every sampled combination was the current
\* one of exactly one iteration, in the order of the sample, every iteration
\* reached its recycle step, and the progress indicator, the client and the
\* cluster are closed.
C23_SweepTerminates ==
  []NoFailure
    => <>(/\ pc = "done"
          /\ i = Len(random_combinations)
          /\ progress_bar = Len(random_combinations)
          /\ rebalances = Len(random_combinations)
          /\ \A k \in 1..Len(random_combinations) :
               /\ Cardinality(WaveOf("train", k)) = Len(scattered_train_data_futures)
               /\ \A t \in WaveOf("train", k) : tasks[t].key = KeyOf(random_combinations[k])
          /\ \A t, u \in DOMAIN tasks : t < u => tasks[t].iter <= tasks[u].iter
          /\ progress_bar_closed
          /\ client_status = "closed"
          /\ cluster_status = "closed")

\* A sweep over a sample of the largest size, with training tasks, ended
\* with nothing having failed.
C23_Witness ==
  /\ pc = "done"
  /\ NoFailure
  /\ Len(random_combinations) = MaxSample
  /\ progress_bar = MaxSample
  /\ Len(scattered_train_data_futures) = MaxTrain
  /\ cluster_status = "closed"

\* C24: two runs on the same four axes, with the same sampling fraction and
\* the same random state, draw the same sampled set and the same remainder.
C24_SampleReproducible ==
  (pc = "enter_sweep" /\ second_run.pc = "enter_sweep")
    => /\ Range(random_combinations) = Range(second_run.random_combinations)
       /\ undrawn_combinations = second_run.undrawn_combinations

\* C25: a pass of the training loop that does not raise submits one task,
\* for the handle the pass is at, with the topic count and the two priors
\* of the current combination and with phase "train", whatever the phase
\* tag of the combination; when the loop is left for the join, the wave of
\* the iteration holds exactly one such task for every handle of the train
\* pool.
C25_OneTrainTaskPerHandle ==
  [][LET coordinator == \A t \in DOMAIN tasks : tasks'[t].status = tasks[t].status
         wave == {t \in DOMAIN tasks' : tasks'[t].phase = "train" /\ tasks'[t].iter = i}
     IN  /\ (pc = "train_submit" /\ coordinator /\ logged' # TrainError)
              => /\ tasks' = Append(tasks, [phase |-> "train",
                                            key |-> KeyOf(random_combinations[i]),
                                            data |-> scattered_train_data_futures[idx],
                                            iter |-> i,
                                            ldamodel |-> NoModel,
                                            status |-> "pending"])
                 /\ train_futures' = Append(train_futures, Len(tasks'))
                 /\ idx' = idx + 1
         /\ (pc # "train_wait" /\ pc' = "train_wait")
              => /\ Cardinality(wave) = Len(scattered_train_data_futures)
                 /\ \A j \in DOMAIN scattered_train_data_futures :
                      \E t \in wave :
                        /\ tasks'[t].data = scattered_train_data_futures[j]
                        /\ tasks'[t].key = KeyOf(random_combinations[i])
                        /\ t \in Range(train_futures')
    ]_vars

\* The training wave of a combination tagged "validation" was submitted on
\* a train pool of two handles.
C25_Witness ==
  /\ pc = "train_wait"
  /\ random_combinations[i][4] = "validation"
  /\ Len(scattered_train_data_futures) = 2
  /\ Cardinality(WaveOf("train", i)) = 2
  /\ \A t \in WaveOf("train", i) : tasks[t].key = KeyOf(random_combinations[i])

\* C26: a pass of the test loop looks up the key made of the n_topics,
\* alpha_value and beta_value fields of the content of its own test batch,
\* whatever the combination of the for statement of line 567 is: with an
\* entry under that key the task it submits has phase "test", that key, the
\* handle of the batch and the artifact stored under the key; with no entry
\* under that key it submits nothing and writes the error.
C26_TestKeyFromBatch ==
  [][LET coordinator == \A t \in DOMAIN tasks : tasks'[t].status = tasks[t].status
         scattered_data == scattered_test_data_futures[idx]
     IN  (pc = "test_submit" /\ coordinator /\ scattered_data.meta \in Keys)
           => /\ scattered_data.meta \in DOMAIN train_models_dict
                   => \/ /\ logged' = TestError
                         /\ tasks' = tasks
                      \/ /\ logged' = <<>>
                         /\ tasks' = Append(tasks,
                                            [phase |-> "test",
                                             key |-> scattered_data.meta,
                                             data |-> scattered_data,
                                             iter |-> i,
                                             ldamodel |-> train_models_dict[scattered_data.meta],
                                             status |-> "pending"])
                         /\ test_futures' = Append(test_futures, Len(tasks'))
              /\ scattered_data.meta \notin DOMAIN train_models_dict
                   => /\ logged' = ModelNotFound
                      /\ tasks' = tasks
                      /\ test_futures' = test_futures
    ]_vars

\* A test task was submitted under the key of its batch, with the artifact
\* of that key, in an iteration whose combination has another key.
C26_Witness ==
  /\ pc = "test_wait"
  /\ \E t \in WaveOf("test", i) :
       /\ tasks[t].key # KeyOf(random_combinations[i])
       /\ tasks[t].key = tasks[t].data.meta
       /\ tasks[t].ldamodel = train_models_dict[tasks[t].key]

\* C27: the pending lists and the lists of collected results hold tasks and
\* results of the current iteration only: nothing of an earlier iteration
\* is in them when an iteration starts, is collected at a join or is there
\* at the visualization step.
C27_ListsWithinIteration ==
  /\ \A t \in Range(train_futures) \cup Range(validation_futures) \cup Range(test_futures) :
       tasks[t].iter = i
  /\ \A r \in completed_train_futures \cup completed_validation_futures
                \cup completed_test_futures :
       tasks[r.lda_model].iter = i

\* C28: every handle of a pool is the handle of a batch that carried the
\* tag of the pool and whose placement did not fail; no batch has more than
\* one handle, over the three pools together; the handles of a pool are in
\* the order in which the reader yielded their batches, and ahead of every
\* batch not yet read; a batch with another tag has no handle.
C28_PoolsPartitionBatches ==
  LET tagged == <<[type |-> "train", pool |-> scattered_train_data_futures],
                  [type |-> "validation", pool |-> scattered_validation_data_futures],
                  [type |-> "test", pool |-> scattered_test_data_futures]>>
  IN  /\ \A p \in DOMAIN tagged :
           LET pool == tagged[p].pool
           IN  /\ \A j \in DOMAIN pool :
                    /\ pool[j].type = tagged[p].type
                    /\ pool[j].id \notin scatter_failed
                    /\ \A b \in Range(reader) : pool[j].id < b.id
               /\ \A j, k \in DOMAIN pool : j < k => pool[j].id < pool[k].id
      /\ \A p, q \in DOMAIN tagged :
           p # q => {h.id : h \in Range(tagged[p].pool)}
                      \cap {h.id : h \in Range(tagged[q].pool)} = {}

\* The reader yielded a train batch, a batch with another tag and a train
\* batch: the train pool holds the first and the third, in that order.
C28_Witness ==
  /\ pc = "build_combinations"
  /\ Len(scattered_train_data_futures) = 2
  /\ scattered_train_data_futures[1].id = 1
  /\ scattered_train_data_futures[2].id = 3
  /\ scattered_validation_data_futures = <<>>
  /\ scattered_test_data_futures = <<>>
  /\ scatter_failed = {}

\* C29: the visualization step hands the three collections of results of
\* the iteration to the visualization collaborator: the train results, the
\* validation results and the test results.
C29_VisualizeReceivesAllPhases ==
  [][pc = "visualize" /\ pc' # "visualize"
       => \A c \in {[phase |-> "TRAIN", completed_futures |-> completed_train_futures],
                    [phase |-> "VALIDATION", completed_futures |-> completed_validation_futures],
                    [phase |-> "TEST", completed_futures |-> completed_test_futures]} :
            c \in Range(visualized')
    ]_vars

C31_ValidationHandlesConsidered ==
  LET considered == Min(Len(scattered_validation_data_futures), Len(random_combinations))
  IN  /\ pc \in {"validate_submit", "validate_wait", "test_submit", "test_wait",
                 "visualize", "recycle"}
           => /\ Len(validation_batches) = considered
              /\ \A j \in DOMAIN validation_batches :
                   validation_batches[j].data = scattered_validation_data_futures[j]
      /\ pc = "validate_submit" => idx \in 1..considered
      /\ \A k \in 1..i : Cardinality(WaveOf("validation", k)) <= considered
      /\ \A t \in DOMAIN tasks :
           tasks[t].phase = "validation"
             => \E j \in 1..considered : tasks[t].data = scattered_validation_data_futures[j]
      /\ \A j \in DOMAIN scattered_validation_data_futures :
           j > Len(random_combinations)
             => \A t \in DOMAIN tasks :
                  ~(tasks[t].phase = "validation"
                      /\ tasks[t].data = scattered_validation_data_futures[j])

\* The sweep over a sample of one combination ended with a validation pool
\* of two handles: the first handle was validated, the second never.
C31_Witness ==
  /\ pc = "done"
  /\ Len(random_combinations) = 1
  /\ Len(scattered_validation_data_futures) = 2
  /\ \E t \in DOMAIN tasks :
       tasks[t].phase = "validation" /\ tasks[t].data = scattered_validation_data_futures[1]
  /\ \A t \in DOMAIN tasks :
       tasks[t].phase = "validation" => tasks[t].data # scattered_validation_data_futures[2]

\* C32: the step that leaves the throttle reports "exhausted", with the
\* warning, exactly when the attempt counter equals the retry limit; it
\* polls nothing and sleeps nothing itself, and a poll is made only with the
\* counter below the limit, so the last sleep is followed by no poll: at an
\* exhausted exit there were as many polls as sleeps, every poll found the
\* workers busy; with a limit of 0 there was no poll and no sleep and the
\* report is "exhausted".
C32_ExhaustedAtLimit ==
  [][LET exit == pc \in {"throttle", "admit"} /\ pc' \notin {"throttle", "admit"}
     IN  /\ exit
              => /\ admission' = "exhausted" <=> throttle_attempt = max_retries
                 /\ logged' = MaxRetriesWarning <=> throttle_attempt = max_retries
                 /\ admission' \in {"exhausted", "proceed"}
                 /\ polls' = polls
                 /\ sleeps' = sleeps
                 /\ throttle_attempt' = throttle_attempt
                 /\ throttle_attempt = max_retries
                      => /\ Len(polls) = max_retries
                         /\ Len(sleeps) = max_retries
                         /\ \A k \in DOMAIN polls : ~polls[k]
                 /\ max_retries = 0 => admission' = "exhausted"
         /\ Len(polls') > Len(polls) => (pc = "throttle" /\ throttle_attempt < max_retries)
         /\ Len(sleeps') > Len(sleeps)
              => /\ Len(polls') > Len(polls)
                 /\ throttle_attempt' = throttle_attempt + 1
    ]_vars

\* With a limit of 0 the throttle was left with no poll and no sleep, and
\* reported "exhausted".
C32_Witness ==
  /\ max_retries = 0
  /\ admission = "exhausted"
  /\ logged = MaxRetriesWarning
  /\ polls = <<>>
  /\ sleeps = <<>>
  /\ throttle_attempt = 0
  /\ i = 1

====
